---- MODULE Spec2Model ----
(***************************************************************************)
(* gym.spaces.Tuple: the product space over an ordered sequence of child   *)
(* spaces (src/gym/spaces/tuple.py).                                       *)
(*                                                                         *)
(* Python values are records [type, v, items]:                             *)
(*   int        v is the integer                                           *)
(*   tuple/list/ndarray   items are the elements (ndarray: ndim >= 1)      *)
(*   ndarray0d  a numpy array of shape (), v is its scalar                 *)
(*   None, str  other kinds of value                                       *)
(* A space is a record [kind, n, spaces, rng]: Discrete(n) is a leaf, a    *)
(* Tuple owns the sequence `spaces`; rng is the state of the space's own   *)
(* generator, NoRng while _np_random is still None.                        *)
(***************************************************************************)
EXTENDS Integers, Sequences, FiniteSets, TLC

\* ---------------------------------------------------------------- bounds
\* user seeds are 0..MaxSeed
MaxSeed == 2
\* seeds drawn from OS entropy are 0..MaxEntropy
MaxEntropy == 1
\* candidate element values are 0..MaxElem
MaxElem == 3
\* candidate sequences for contains have 0..MaxLen elements
MaxLen == 3
\* batches for to_jsonable have 0..MaxBatch samples
MaxBatch == 2
\* number of states of a generator
Modulus == 3

\* np.iinfo(int).max, the size of the sub-seed domain; scaled down so that a
\* Tuple can have more children than there are sub-seeds
IntMax == 2

\* ---------------------------------------------------------------- values
NoRng == -1

IntV(i) == [type |-> "int", v |-> i, items |-> <<>>]
TupV(s) == [type |-> "tuple", v |-> 0, items |-> s]
ListV(s) == [type |-> "list", v |-> 0, items |-> s]
ArrV(s) == [type |-> "ndarray", v |-> 0, items |-> s]
Arr0V(i) == [type |-> "ndarray0d", v |-> i, items |-> <<>>]
NoneV == [type |-> "None", v |-> 0, items |-> <<>>]
StrV == [type |-> "str", v |-> 0, items |-> <<>>]

Discrete(n) == [kind |-> "Discrete", n |-> n, spaces |-> <<>>, rng |-> NoRng]

\* Tuple.__init__ with seed=None: the iterable is materialised in order and
\* the generator stays unset (Space.__init__ seeds only when seed is given)
TupleInit(spaces) == [kind |-> "Tuple", n |-> 0, spaces |-> spaces, rng |-> NoRng]

\* ------------------------------------------------------------- generator
\* seeding.np_random(seed): the generator state a seed determines
SeedState(s) == s % Modulus
\* one draw: the value a state yields, and the state after it
Out(st) == st
Step(st) == (st + 1) % Modulus

RECURSIVE StepN(_, _)
StepN(st, k) == IF k = 0 THEN st ELSE StepN(Step(st), k - 1)

\* Space.seed(seed), the inherited method: seeds the space's own generator
\* and returns [seed]; None draws the seed from entropy (the head of ent).
\* seeding.np_random fails on anything but None or an int >= 0.
\* log lists the seeds given to generators, one per seeding, in order.
SpaceSeed(sp, seed, ent) ==
    IF seed.type = "None"
    THEN [sp |-> [sp EXCEPT !.rng = SeedState(Head(ent))],
          seeds |-> <<Head(ent)>>, log |-> <<Head(ent)>>,
          ent |-> Tail(ent), raised |-> ""]
    ELSE IF seed.type = "int" /\ seed.v >= 0
    THEN [sp |-> [sp EXCEPT !.rng = SeedState(seed.v)],
          seeds |-> <<seed.v>>, log |-> <<seed.v>>,
          ent |-> ent, raised |-> ""]
    ELSE [sp |-> sp, seeds |-> <<>>, log |-> <<>>, ent |-> ent,
          raised |-> "Error"]

\* np_random.choice(a, size, replace=False): size distinct values of 0..a-1,
\* a ValueError when size exceeds a
ChoiceNoReplace(st, a, size) ==
    IF size > a
    THEN [raised |-> "ValueError", vals |-> <<>>, rng |-> st]
    ELSE [raised |-> "", vals |-> [k \in 1..size |-> (Out(st) + k - 1) % a],
          rng |-> StepN(st, size)]

\* np_random.choice(a, size): size independent draws from 0..a-1
ChoiceReplace(st, a, size) ==
    [raised |-> "",
     vals |-> [k \in 1..size |-> (Out(StepN(st, k - 1)) \div 2) % a],
     rng |-> StepN(st, size)]

\* Subseeds with replace=False left out of the first draw
SubseedsWithReplacement(st, size) == ChoiceReplace(st, IntMax, size)

\* the try/except of Tuple.seed: unique sub-seeds, or, on ValueError, the same
\* draw with replacement
Subseeds(st, size) ==
    LET c == ChoiceNoReplace(st, IntMax, size)
    IN IF c.raised = "" THEN c ELSE ChoiceReplace(c.rng, IntMax, size)

\* ------------------------------------------------------------------ seed
RECURSIVE SeedOp(_, _, _)
RECURSIVE SeedEach(_, _, _, _)

\* one turn of the loops of Tuple.seed: r is what the child's seed returned;
\* first: only the first seed of r is kept (seeds.append(...[0]), the int
\* branch), otherwise all of them (seeds += ...)
SeedTurn(i, first, acc, r) ==
    [spaces |-> [acc.spaces EXCEPT ![i] = r.sp],
     seeds |-> IF r.raised # "" THEN acc.seeds
               ELSE IF first THEN Append(acc.seeds, Head(r.seeds))
               ELSE acc.seeds \o r.seeds,
     log |-> acc.log \o r.log,
     ent |-> r.ent,
     raised |-> r.raised]

\* the loops of Tuple.seed over the children: child i is seeded with
\* entries[i] (IndexError when the list has no such entry); an exception
\* ends the loop. acc carries the children seeded so far.
SeedEach(entries, i, first, acc) ==
    IF acc.raised # "" \/ i > Len(acc.spaces) THEN acc
    ELSE IF i > Len(entries) THEN [acc EXCEPT !.raised = "IndexError"]
    ELSE SeedEach(entries, i + 1, first,
                  SeedTurn(i, first, acc,
                           SeedOp(acc.spaces[i], entries[i], acc.ent)))

\* What each branch of Tuple.seed does before its loop over the children:
\* own is the result of seeding the Tuple's own generator (nothing, but in
\* the int branch), entries[i] the seed for child i, first whether only the
\* first seed a child returns is kept.

\* SeedList with seed[0] given to every child
SeedListFirstEntry(sp, seed, ent) ==
    [own |-> [sp |-> sp, seeds |-> <<>>, log |-> <<>>, ent |-> ent, raised |-> ""],
     entries |-> [k \in 1..Len(seed.items) |-> seed.items[1]], first |-> FALSE]

\* the list branch: seed[i] for child i, everything a child returns is
\* kept; the generator of the Tuple itself is not touched
SeedList(sp, seed, ent) ==
    [own |-> [sp |-> sp, seeds |-> <<>>, log |-> <<>>, ent |-> ent, raised |-> ""],
     entries |-> seed.items, first |-> FALSE]

\* SeedInt that seeds the Tuple's generator only while it is still unset
SeedIntKeepsGenerator(sp, seed, ent) ==
    LET own == IF sp.rng = NoRng THEN SpaceSeed(sp, seed, ent)
               ELSE [sp |-> sp, seeds |-> <<seed.v>>, log |-> <<seed.v>>,
                     ent |-> ent, raised |-> ""]
        c == Subseeds(own.sp.rng, Len(sp.spaces))
    IN [own |-> [own EXCEPT !.sp.rng = c.rng],
        entries |-> [k \in 1..Len(c.vals) |-> IntV(c.vals[k])],
        first |-> TRUE]

\* the int branch: super().seed(seed), then one sub-seed per child, drawn
\* from the generator just seeded; zip pairs children and sub-seeds
SeedInt(sp, seed, ent) ==
    LET own == SpaceSeed(sp, seed, ent)
        c == Subseeds(own.sp.rng, Len(sp.spaces))
    IN IF own.raised # "" THEN [own |-> own, entries |-> <<>>, first |-> TRUE]
       ELSE [own |-> [own EXCEPT !.sp.rng = c.rng],
             entries |-> [k \in 1..Len(c.vals) |-> IntV(c.vals[k])],
             first |-> TRUE]

\* the None branch: every child is seeded with None
SeedNone(sp, seed, ent) ==
    [own |-> [sp |-> sp, seeds |-> <<>>, log |-> <<>>, ent |-> ent, raised |-> ""],
     entries |-> [k \in 1..Len(sp.spaces) |-> seed], first |-> FALSE]

\* SeedDone that keeps only the children whose generator is seeded
SeedDoneKeepsSeeded(own, r) ==
    [sp |-> [own.sp EXCEPT !.spaces =
                SelectSeq(r.spaces, LAMBDA c : c.kind = "Tuple" \/ c.rng # NoRng)],
     seeds |-> r.seeds, log |-> r.log, ent |-> r.ent, raised |-> r.raised]

\* the end of Tuple.seed: r is the outcome of the loop
SeedDone(own, r) ==
    [sp |-> [own.sp EXCEPT !.spaces = r.spaces],
     seeds |-> r.seeds, log |-> r.log, ent |-> r.ent, raised |-> r.raised]

SeedPlan(sp, seed, ent) ==
    IF seed.type = "list" THEN SeedList(sp, seed, ent)
    ELSE IF seed.type = "int" THEN SeedInt(sp, seed, ent)
    ELSE SeedNone(sp, seed, ent)

SeedRun(sp, plan) ==
    IF plan.own.raised # "" THEN plan.own
    ELSE SeedDone(plan.own,
                  SeedEach(plan.entries, 1, plan.first,
                           [spaces |-> sp.spaces, seeds |-> plan.own.seeds,
                            log |-> plan.own.log, ent |-> plan.own.ent,
                            raised |-> ""]))

\* Tuple.seed; any other type of seed is a TypeError
TupleSeed(sp, seed, ent) ==
    IF seed.type \notin {"list", "int", "None"}
    THEN [sp |-> sp, seeds |-> <<>>, log |-> <<>>, ent |-> ent,
          raised |-> "TypeError"]
    ELSE SeedRun(sp, SeedPlan(sp, seed, ent))

\* a Discrete child inherits Space.seed
SeedOp(sp, seed, ent) ==
    IF sp.kind = "Tuple" THEN TupleSeed(sp, seed, ent)
    ELSE SpaceSeed(sp, seed, ent)

\* ---------------------------------------------------------------- sample
RECURSIVE SampleOp(_, _)
RECURSIVE SampleEach(_, _)

\* Discrete.sample: one draw from the space's generator, which the np_random
\* property seeds from entropy when it is still unset
DiscreteSample(sp, ent) ==
    LET lazy == sp.rng = NoRng
        st == IF lazy THEN SeedState(Head(ent)) ELSE sp.rng
    IN [sp |-> [sp EXCEPT !.rng = Step(st)],
        out |-> IntV(Out(st) % sp.n),
        ent |-> IF lazy THEN Tail(ent) ELSE ent]

\* the generator expression of Tuple.sample: the children sample in order
SampleEach(spaces, ent) ==
    IF spaces = <<>> THEN [spaces |-> <<>>, outs |-> <<>>, ent |-> ent]
    ELSE LET r == SampleOp(Head(spaces), ent)
             rest == SampleEach(Tail(spaces), r.ent)
         IN [spaces |-> <<r.sp>> \o rest.spaces,
             outs |-> <<r.out>> \o rest.outs,
             ent |-> rest.ent]

\* TupleSample with the samples assembled in reverse order
TupleSampleReversed(sp, ent) ==
    LET r == SampleEach(sp.spaces, ent)
        n == Len(r.outs)
    IN [sp |-> [sp EXCEPT !.spaces = r.spaces],
        out |-> TupV([i \in 1..n |-> r.outs[n + 1 - i]]), ent |-> r.ent]

\* Tuple.sample
TupleSample(sp, ent) ==
    LET r == SampleEach(sp.spaces, ent)
    IN [sp |-> [sp EXCEPT !.spaces = r.spaces], out |-> TupV(r.outs),
        ent |-> r.ent]

SampleOp(sp, ent) ==
    IF sp.kind = "Tuple" THEN TupleSample(sp, ent) ELSE DiscreteSample(sp, ent)

\* -------------------------------------------------------------- contains
\* the result of contains is "True", "False" or the exception it raises
RECURSIVE ContainsOp(_, _)
RECURSIVE ContainsAll(_, _)

\* Discrete.contains: an int, or an integer array of shape (), in 0..n-1
DiscreteContains(sp, x) ==
    IF x.type \in {"int", "ndarray0d"} /\ 0 <= x.v /\ x.v < sp.n
    THEN "True" ELSE "False"

\* all(space.contains(part) for (space, part) in zip(spaces, x)): stops at
\* the first child that answers False, or raises
ContainsAll(spaces, parts) ==
    IF spaces = <<>> \/ parts = <<>> THEN "True"
    ELSE LET r == ContainsOp(Head(spaces), Head(parts))
         IN IF r = "True" THEN ContainsAll(Tail(spaces), Tail(parts)) ELSE r

\* tuple(x) of a list or an ndarray; an ndarray of shape () cannot be iterated
Promote(x) ==
    IF x.type \in {"list", "ndarray"} THEN TupV(x.items)
    ELSE IF x.type = "ndarray0d" THEN [type |-> "TypeError", v |-> 0, items |-> <<>>]
    ELSE x

\* TupleContains without the comparison of the lengths
TupleContainsNoLen(sp, x) ==
    LET t == Promote(x)
    IN IF t.type = "TypeError" THEN "TypeError"
       ELSE IF t.type # "tuple" THEN "False"
       ELSE ContainsAll(sp.spaces, t.items)

\* Tuple.contains
TupleContains(sp, x) ==
    LET t == Promote(x)
    IN IF t.type = "TypeError" THEN "TypeError"
       ELSE IF t.type # "tuple" THEN "False"
       ELSE IF Len(t.items) # Len(sp.spaces) THEN "False"
       ELSE ContainsAll(sp.spaces, t.items)

ContainsOp(sp, x) ==
    IF sp.kind = "Tuple" THEN TupleContains(sp, x) ELSE DiscreteContains(sp, x)

\* ------------------------------------------------------------------ json
RECURSIVE ToJsonableOp(_, _)
RECURSIVE FromJsonableOp(_, _)

\* [sample[i] for sample in sample_n], i counted from 1
Column(batch, i) == ListV([k \in 1..Len(batch.items) |-> batch.items[k].items[i]])

\* Tuple.to_jsonable: one encoded column per child; sample[i] raises
\* IndexError on a sample with fewer elements than there are children
TupleToJsonable(sp, batch) ==
    LET n == Len(sp.spaces)
        cols == [i \in 1..n |-> ToJsonableOp(sp.spaces[i], Column(batch, i))]
    IN IF n > 0 /\ \E k \in 1..Len(batch.items) : Len(batch.items[k].items) < n
       THEN [out |-> NoneV, raised |-> "IndexError"]
       ELSE IF \E i \in 1..n : cols[i].raised # ""
       THEN [out |-> NoneV,
             raised |-> cols[CHOOSE i \in 1..n : cols[i].raised # ""
                           /\ \A j \in 1..(i - 1) : cols[j].raised = ""].raised]
       ELSE [out |-> ListV([i \in 1..n |-> cols[i].out]), raised |-> ""]

\* Space.to_jsonable, which Discrete inherits: list(sample_n)
SpaceToJsonable(sp, batch) == [out |-> ListV(batch.items), raised |-> ""]

ToJsonableOp(sp, batch) ==
    IF sp.kind = "Tuple" THEN TupleToJsonable(sp, batch)
    ELSE SpaceToJsonable(sp, batch)

\* the length of the shortest of the sequences lens (zip stops there); zip of
\* no sequences at all yields nothing
RECURSIVE MinOf(_)
MinOf(lens) ==
    IF lens = <<>> THEN 0
    ELSE IF Len(lens) = 1 THEN lens[1]
    ELSE LET m == MinOf(Tail(lens))
         IN IF lens[1] < m THEN lens[1] ELSE m

\* zip(*cols): the k-th row takes the k-th element of every column
Zip(cols) ==
    LET rows == MinOf([i \in 1..Len(cols) |-> Len(cols[i].items)])
    IN [k \in 1..rows |-> TupV([i \in 1..Len(cols) |-> cols[i].items[k]])]

\* Tuple.from_jsonable: decode column i with child i, then transpose;
\* sample_n[i] raises IndexError when a column is missing
TupleFromJsonable(sp, data) ==
    LET n == Len(sp.spaces)
        cols == [i \in 1..n |-> FromJsonableOp(sp.spaces[i], data.items[i])]
    IN IF Len(data.items) < n
       THEN [out |-> NoneV, raised |-> "IndexError"]
       ELSE IF \E i \in 1..n : cols[i].raised # ""
       THEN [out |-> NoneV,
             raised |-> cols[CHOOSE i \in 1..n : cols[i].raised # ""
                           /\ \A j \in 1..(i - 1) : cols[j].raised = ""].raised]
       ELSE [out |-> ListV(Zip([i \in 1..n |-> cols[i].out])), raised |-> ""]

\* Space.from_jsonable, which Discrete inherits: the list as it is
SpaceFromJsonable(sp, data) == [out |-> data, raised |-> ""]

FromJsonableOp(sp, data) ==
    IF sp.kind = "Tuple" THEN TupleFromJsonable(sp, data)
    ELSE SpaceFromJsonable(sp, data)

\* Tuple.__getitem__: self.spaces[index], Python indexing (index from 0,
\* negative from the end); IndexError out of range
GetItemOp(sp, index) ==
    LET n == Len(sp.spaces)
        k == IF index < 0 THEN index + n ELSE index
    IN IF k < 0 \/ k >= n THEN [out |-> NoneV, raised |-> "IndexError"]
       ELSE [out |-> sp.spaces[k + 1], raised |-> ""]

\* Tuple.__len__
LenOp(sp) == Len(sp.spaces)

\* ----------------------------------------------------------- the machine
\* args   the children given to the constructor
\* obj    two Tuple spaces built from equal children: "self" and "twin"
\* ret    the last call: on which object, the operation, its argument, what
\*        it returned (out, seeds) or raised, the entropy it consumed (ent)
\*        and the seeds it gave to generators (log)
\* last   per object: whether its last calls were seed(int) ("seeded") and
\*        then one sample() ("sampled"), with the seed, the seeds returned
\*        and the sample
VARIABLES args, obj, ret, last
vars == <<args, obj, ret, last>>

Names == {"self", "twin"}

D2 == Discrete(2)
D3 == Discrete(3)

Shapes ==
    {<<>>, <<D2>>, <<D2, D3>>, <<D2, D3, D2>>, <<TupleInit(<<D2, D3>>), D2>>}

TwinShapes == {<<D2, D3>>, <<TupleInit(<<D2>>), D3>>}

RECURSIVE Leaves(_)
Leaves(sp) ==
    IF sp.kind # "Tuple" THEN 1
    ELSE IF sp.spaces = <<>> THEN 0
    ELSE Leaves(Head(sp.spaces)) + Leaves([sp EXCEPT !.spaces = Tail(sp.spaces)])

\* a space without the generator states: what the constructor was given
RECURSIVE ShapeOf(_)
ShapeOf(sp) ==
    [kind |-> sp.kind, n |-> sp.n,
     spaces |-> [i \in 1..Len(sp.spaces) |-> ShapeOf(sp.spaces[i])]]

\* the leaf generators below sp that are still unset
RECURSIVE Unset(_)
Unset(sp) ==
    IF sp.kind # "Tuple" THEN (IF sp.rng = NoRng THEN 1 ELSE 0)
    ELSE IF sp.spaces = <<>> THEN 0
    ELSE Unset(Head(sp.spaces)) + Unset([sp EXCEPT !.spaces = Tail(sp.spaces)])

\* the entropy a call consumes: seed draws one value per leaf it seeds with
\* None (at most: an exception may end it before), sample one value per
\* unset leaf
EntsFor(used) == [1..used -> 0..MaxEntropy]
RECURSIVE SeedNeeds(_, _)
RECURSIVE SeedNeedsFrom(_, _, _)
SeedNeedsFrom(sp, seed, i) ==
    IF i > Len(sp.spaces) \/ i > Len(seed.items) THEN 0
    ELSE SeedNeeds(sp.spaces[i], seed.items[i]) + SeedNeedsFrom(sp, seed, i + 1)
SeedNeeds(sp, seed) ==
    IF seed.type = "None" THEN Leaves(sp)
    ELSE IF sp.kind = "Tuple" /\ seed.type = "list" THEN SeedNeedsFrom(sp, seed, 1)
    ELSE 0
SampleNeeds(sp) == Unset(sp)
Consumed(ent, rest) == SubSeq(ent, 1, Len(ent) - Len(rest))

NoCall ==
    [on |-> "self", op |-> "init", arg |-> NoneV, out |-> NoneV, seeds |-> <<>>,
     log |-> <<>>, ent |-> <<>>, raised |-> ""]
NoLast == [stage |-> "none", seed |-> 0, seeds |-> <<>>, sample |-> NoneV]

BoolV(b) == [type |-> "bool", v |-> IF b = "True" THEN 1 ELSE 0, items |-> <<>>]

InitOf(shapes) ==
    /\ args \in shapes
    /\ obj = [o \in Names |-> TupleInit(args)]
    /\ ret = NoCall
    /\ last = [o \in Names |-> NoLast]

Init == InitOf(Shapes)

\* space.seed(seed): the children seeded before an exception stay seeded
Seed(o, seed, ent) ==
    LET r == TupleSeed(obj[o], seed, ent)
    IN /\ obj' = [obj EXCEPT ![o] = r.sp]
       /\ ret' = [on |-> o, op |-> "seed", arg |-> seed, out |-> NoneV,
                  seeds |-> IF r.raised = "" THEN r.seeds ELSE <<>>,
                  log |-> r.log, ent |-> Consumed(ent, r.ent),
                  raised |-> r.raised]
       /\ last' = [last EXCEPT ![o] =
                     IF seed.type = "int" /\ r.raised = ""
                     THEN [stage |-> "seeded", seed |-> seed.v,
                           seeds |-> r.seeds, sample |-> NoneV]
                     ELSE NoLast]
       /\ UNCHANGED args

\* space.sample()
Sample(o, ent) ==
    LET r == TupleSample(obj[o], ent)
    IN /\ obj' = [obj EXCEPT ![o] = r.sp]
       /\ ret' = [NoCall EXCEPT !.on = o, !.op = "sample", !.out = r.out,
                                !.ent = Consumed(ent, r.ent)]
       /\ last' = [last EXCEPT ![o] =
                     IF last[o].stage = "seeded"
                     THEN [last[o] EXCEPT !.stage = "sampled", !.sample = r.out]
                     ELSE NoLast]
       /\ UNCHANGED args

\* space.contains(x)
Contains(o, x) ==
    LET r == TupleContains(obj[o], x)
    IN /\ ret' = [NoCall EXCEPT !.on = o, !.op = "contains", !.arg = x,
                                !.out = IF r \in {"True", "False"}
                                        THEN BoolV(r) ELSE NoneV,
                                !.raised = IF r \in {"True", "False"}
                                           THEN "" ELSE r]
       /\ UNCHANGED <<args, obj, last>>

\* space.to_jsonable(sample_n)
ToJsonable(o, batch) ==
    LET r == TupleToJsonable(obj[o], batch)
    IN /\ ret' = [NoCall EXCEPT !.on = o, !.op = "to_jsonable", !.arg = batch,
                                !.out = r.out, !.raised = r.raised]
       /\ UNCHANGED <<args, obj, last>>

\* space.from_jsonable(sample_n)
FromJsonable(o, data) ==
    LET r == TupleFromJsonable(obj[o], data)
    IN /\ ret' = [NoCall EXCEPT !.on = o, !.op = "from_jsonable", !.arg = data,
                                !.out = r.out, !.raised = r.raised]
       /\ UNCHANGED <<args, obj, last>>

\* space[index]
GetItem(o, index) ==
    LET r == GetItemOp(obj[o], index)
    IN /\ ret' = [NoCall EXCEPT !.on = o, !.op = "getitem", !.arg = IntV(index),
                                !.out = r.out, !.raised = r.raised]
       /\ UNCHANGED <<args, obj, last>>

\* len(space)
LenCall(o) ==
    /\ ret' = [NoCall EXCEPT !.on = o, !.op = "len", !.out = IntV(LenOp(obj[o]))]
    /\ UNCHANGED <<args, obj, last>>

\* ------------------------------------------------------------ the inputs
SeqsOf(S, n) == UNION {[1..k -> S] : k \in 0..n}

SeedInts == {IntV(s) : s \in 0..MaxSeed}
\* seed lists: lists of ints with one entry per child, one entry less and
\* one entry more, and lists with None, a list (for a child Tuple) or a str
\* among the entries
IntLists(n) ==
    {ListV(l) : l \in [1..n -> {IntV(0), IntV(1)}]}
    \cup {ListV([k \in 1..(n - 1) |-> IntV(1)]), ListV([k \in 1..(n + 1) |-> IntV(k % 2)])}
MixedLists(n) ==
    {ListV([k \in 1..n |-> IF k = 1 THEN IntV(1) ELSE NoneV]),
     ListV([k \in 1..n |-> IF k = 1 THEN ListV(<<IntV(1), IntV(0)>>) ELSE IntV(0)]),
     ListV([k \in 1..n |-> IF k = n THEN StrV ELSE IntV(1)])}
SeedLists(o) == IntLists(Len(obj[o].spaces)) \cup MixedLists(Len(obj[o].spaces))
\* seed arguments: ints, None, a str, lists
SeedArgs(o) == SeedInts \cup {NoneV, StrV} \cup SeedLists(o)
TwinSeedArgs(o) == SeedInts \cup {NoneV} \cup MixedLists(Len(obj[o].spaces))

IntVs == {IntV(v) : v \in 0..MaxElem}
NestedParts ==
    {TupV(<<IntV(1), IntV(2)>>), TupV(<<IntV(1), IntV(MaxElem)>>),
     ListV(<<IntV(0), IntV(0)>>)}
Parts == IntVs \cup {Arr0V(0)} \cup NestedParts
\* candidates for contains: tuples and lists of parts, integer arrays, an
\* array of shape (), an int, None, a str
Candidates ==
    {TupV(q) : q \in SeqsOf(Parts, MaxLen)}
    \cup {ListV(q) : q \in SeqsOf(Parts, MaxLen)}
    \cup {ArrV(q) : q \in SeqsOf(IntVs, MaxLen)}
    \cup {Arr0V(0), IntV(0), NoneV, StrV}

\* the members of a space, as sample() returns them
RECURSIVE SamplesOf(_)
RECURSIVE Rows(_)
Rows(spaces) ==
    IF spaces = <<>> THEN {<<>>}
    ELSE {<<h>> \o t : h \in SamplesOf(Head(spaces)), t \in Rows(Tail(spaces))}
SamplesOf(sp) ==
    IF sp.kind = "Tuple" THEN {TupV(r) : r \in Rows(sp.spaces)}
    ELSE {IntV(v) : v \in 0..(sp.n - 1)}

\* batches of members, and one batch whose sample has no elements
Batches(o) ==
    {ListV(b) : b \in SeqsOf(SamplesOf(obj[o]), MaxBatch)}
    \cup {ListV(<<TupV(<<>>)>>)}

DropLast(l) == [l EXCEPT !.items = SubSeq(l.items, 1, Len(l.items) - 1)]
\* inputs of from_jsonable: what to_jsonable just returned, the same with its
\* last column missing or its first column one entry short, and no columns
JsonInputs ==
    {ListV(<<>>)}
    \cup (IF ret.op = "to_jsonable" /\ ret.raised = ""
          THEN {ret.out, DropLast(ret.out)}
               \cup (IF ret.out.items # <<>>
                     THEN {[ret.out EXCEPT !.items[1] = DropLast(ret.out.items[1])]}
                     ELSE {})
          ELSE {})

Indices == (0 - MaxLen - 1)..MaxLen
FewIndices == {0, Len(args)}

\* the few inputs of the pure operations used between seed and sample calls
FewCandidates ==
    {Arr0V(0), ListV(<<IntV(0), IntV(0)>>)}
    \cup (IF ret.op = "sample" THEN {ret.out} ELSE {})
FewBatches ==
    {ListV(<<TupV(<<>>)>>)}
    \cup (IF ret.op = "sample" THEN {ListV(<<ret.out>>)} ELSE {})

\* ------------------------------------------------------ specifications
\* Spec: every operation on one Tuple
DoSeed ==
    \E seed \in SeedArgs("self") :
        \E ent \in EntsFor(SeedNeeds(obj["self"], seed)) : Seed("self", seed, ent)
DoSample == \E ent \in EntsFor(SampleNeeds(obj["self"])) : Sample("self", ent)
DoContains == \E x \in FewCandidates : Contains("self", x)
DoToJsonable == \E b \in FewBatches : ToJsonable("self", b)
DoFromJsonable == \E d \in JsonInputs : FromJsonable("self", d)
DoGetItem == \E i \in FewIndices : GetItem("self", i)
DoLen == LenCall("self")

Next ==
    \/ DoSeed
    \/ DoSample
    \/ DoContains
    \/ DoToJsonable
    \/ DoFromJsonable
    \/ DoGetItem
    \/ DoLen

Spec == Init /\ [][Next]_vars

\* SpecPure: the operations that read only the children, on every input
PureContains == ret.op = "init" /\ \E x \in Candidates : Contains("self", x)
PureToJsonable == ret.op = "init" /\ \E b \in Batches("self") : ToJsonable("self", b)
PureFromJsonable ==
    ret.op \in {"init", "to_jsonable"} /\ \E d \in JsonInputs : FromJsonable("self", d)
PureGetItem == ret.op = "init" /\ \E i \in Indices : GetItem("self", i)
PureLen == ret.op = "init" /\ LenCall("self")

NextPure ==
    \/ PureContains
    \/ PureToJsonable
    \/ PureFromJsonable
    \/ PureGetItem
    \/ PureLen

SpecPure == Init /\ [][NextPure]_vars

\* SpecTwin: two Tuples with equal children, each going through seed and
\* sample calls of its own ("twin" is seeded with ints only)
InitTwin == InitOf(TwinShapes)
SelfSeed ==
    \E seed \in TwinSeedArgs("self") :
        \E ent \in EntsFor(SeedNeeds(obj["self"], seed)) : Seed("self", seed, ent)
SelfSample == \E ent \in EntsFor(SampleNeeds(obj["self"])) : Sample("self", ent)
TwinSeed == \E seed \in SeedInts : Seed("twin", seed, <<>>)
TwinSample == \E ent \in EntsFor(SampleNeeds(obj["twin"])) : Sample("twin", ent)

NextTwin ==
    \/ SelfSeed
    \/ SelfSample
    \/ TwinSeed
    \/ TwinSample

SpecTwin == InitTwin /\ [][NextTwin]_vars

\* ------------------------------------------------------------ the claims
self == obj["self"]
Arity == Len(args)

C2_ContainsNeverRaises ==
    (/\ ret.op = "contains"
     /\ \A i \in 1..Arity : self.spaces[i].kind = "Discrete")
    => /\ ret.raised = ""
       /\ ret.out.type = "bool"

\* C3 (SpecPure): from_jsonable(to_jsonable(batch)) is the batch, for every
\* batch of members of the space, whatever the number of children.
C3_RoundTrip ==
    (/\ ret.op = "to_jsonable"
     /\ \A k \in 1..Len(ret.arg.items) : ret.arg.items[k] \in SamplesOf(self))
    => /\ ret.raised = ""
       /\ TupleFromJsonable(self, ret.out) = [out |-> ret.arg, raised |-> ""]

\* C4 (SpecTwin): two Tuples with equal children, seeded with the same int
\* after whatever calls each went through, return the same list of seeds,
\* and the same sample when each is then sampled once.
C4_SameSeedSameSample ==
    (/\ last["self"].stage # "none"
     /\ last["twin"].stage # "none"
     /\ last["self"].seed = last["twin"].seed)
    => /\ last["self"].seeds = last["twin"].seeds
       /\ (last["self"].stage = "sampled" /\ last["twin"].stage = "sampled")
          => last["self"].sample = last["twin"].sample

\* both seeded with the same int and sampled once, "self" last
C4_Witness ==
    /\ last["self"].stage = "sampled"
    /\ last["twin"].stage = "sampled"
    /\ last["self"].seed = last["twin"].seed
    /\ ret.on = "self"
    /\ obj["self"].rng # NoRng

\* C5: seed(list) with a list that has fewer or more entries than there are
\* children raises.
C5_LengthMismatchRaises ==
    (/\ ret.op = "seed"
     /\ ret.arg.type = "list"
     /\ Len(ret.arg.items) # Arity)
    => ret.raised # ""

\* C6: the list seed returns has one entry per seeding of a generator, in
\* the order of the seedings, also when a child is itself a Tuple.
C6_OneSeedPerSeeding ==
    (ret.op = "seed" /\ ret.raised = "") => ret.seeds = ret.log

\* child.seed(entry) called on each child by itself, in order: the children
\* after the calls and the lists they returned, concatenated
RECURSIVE DirectSeeds(_, _, _)
DirectSeeds(spaces, entries, ent) ==
    IF spaces = <<>> THEN [spaces |-> <<>>, seeds |-> <<>>]
    ELSE LET r == SeedOp(Head(spaces), Head(entries), ent)
             rest == DirectSeeds(Tail(spaces), Tail(entries), r.ent)
         IN [spaces |-> <<r.sp>> \o rest.spaces, seeds |-> r.seeds \o rest.seeds]

\* C7: a seed(list) call with one entry per child, when it returns, leaves
\* every child as child.seed(entry) called on that child alone leaves it,
\* returns the concatenation of what those calls return, and leaves the
\* Tuple's own generator as it was.
C7_ListSeedsEachChildAlone ==
    [][(/\ ret'.op = "seed"
        /\ ret'.arg.type = "list"
        /\ Len(ret'.arg.items) = Arity
        /\ ret'.raised = "")
       => LET direct == DirectSeeds(self.spaces, ret'.arg.items, ret'.ent)
          IN /\ obj'["self"].spaces = direct.spaces
             /\ ret'.seeds = direct.seeds
             /\ obj'["self"].rng = self.rng]_vars

\* a list seeding of a Tuple whose first child is a Tuple, seeded by a list
C7_Witness ==
    /\ ret.op = "seed"
    /\ ret.arg.type = "list"
    /\ Len(ret.arg.items) = Arity
    /\ Arity = 2
    /\ ret.arg.items[1].type = "list"
    /\ ret.raised = ""
    /\ self.spaces[2].rng # NoRng

\* C8: after construction and after every call, also one that raised, len()
\* is the number of children given to the constructor and [i] is the i-th of
\* them.
C8_ChildrenNeverChange ==
    /\ LenOp(self) = Arity
    /\ \A i \in 0..(Arity - 1) :
          /\ GetItemOp(self, i).raised = ""
          /\ ShapeOf(GetItemOp(self, i).out) = ShapeOf(args[i + 1])

\* a seed(list) call that raised after it had seeded the first children
C8_Witness ==
    /\ ret.op = "seed"
    /\ ret.raised = "IndexError"
    /\ Arity = 3
    /\ self.spaces[1].rng # NoRng

\* C9: what sample() returns is a tuple with one element per child, which
\* contains accepts.
C9_SampleIsMember ==
    ret.op = "sample"
    => /\ ret.out.type = "tuple"
       /\ Len(ret.out.items) = Arity
       /\ TupleContains(self, ret.out) = "True"

\* a sample of a Tuple whose first child is a Tuple
C9_Witness ==
    /\ ret.op = "sample"
    /\ Arity = 2
    /\ ret.out.items[1].type = "tuple"

\* C10: seed(int) returns; it has seeded the Tuple's own generator with the
\* int and drawn one sub-seed per child from it, each child is left as seeded
\* with its sub-seed, in child order, and the sub-seeds are pairwise distinct
\* unless there are more children than sub-seeds to draw from.
C10_IntSeedSubseeds ==
    (ret.op = "seed" /\ ret.arg.type = "int")
    => /\ ret.raised = ""
       /\ Len(ret.seeds) = Arity + 1
       /\ ret.seeds[1] = ret.arg.v
       /\ self.rng = StepN(SeedState(ret.arg.v), Arity)
       /\ \A i \in 1..Arity :
             /\ ret.seeds[i + 1] \in 0..(IntMax - 1)
             /\ self.spaces[i] = SeedOp(args[i], IntV(ret.seeds[i + 1]), <<>>).sp
       /\ Arity <= IntMax
          => \A i, j \in 1..Arity : i # j => ret.seeds[i + 1] # ret.seeds[j + 1]

\* more children than sub-seeds: the draw with replacement, two children
\* with the same sub-seed
C10_Witness ==
    /\ ret.op = "seed"
    /\ ret.arg.type = "int"
    /\ Arity > IntMax
    /\ ret.raised = ""
    /\ \E i, j \in 1..Arity : i # j /\ ret.seeds[i + 1] = ret.seeds[j + 1]

====
